---- MODULE Spec2Model ----
(***************************************************************************)
(* SPC Campus Connect: sign-up, login resolution and the program head's    *)
(* approval workflow, as implemented by LandingPage.jsx and                *)
(* SuperAdminDashboard.jsx against the hosted auth provider and tables.    *)
(*                                                                         *)
(* Every awaited backend call answers with data or with an error object    *)
(* ({data, error}); an action takes the answer as its "outcome" input.     *)
(***************************************************************************)
EXTENDS Naturals, FiniteSets, Sequences, TLC

\* ---------------------------------------------------------------- bounds
MaxAccounts == 3      \* accounts the auth provider will create
MaxClock == 2         \* distinct timestamps handed out by new Date()
MaxPosts == 2         \* posts the admin panel will create

\* ------------------------------------------------------------- constants
Clients == {"b1", "b2"}              \* browsers running the application
Departments == {"CCS", "CED"}        \* two of the six department codes
Roles == {"user", "admin", "super_admin"}
MinPasswordLength == 6               \* signupData.password.length < 6

\* JavaScript null for ids, rows and addresses; a timestamp column holds a
\* time 1, 2, ... or NullTime
Null == [null |-> TRUE]
NullTime == 0
\* a local of a handler that has not been assigned yet
Unread == [unread |-> TRUE]
\* what an awaited backend call answers: data, or an error object
Outcomes == {"ok", "error"}

\* An e-mail address: the part before "@spc.edu" is <dept>-admin, <dept>-head
\* or a student's own name; "upper" tells whether it was typed with capitals.
\* The addresses typed here: both spellings of the admin addresses, the other
\* addresses in lower case.
Emails ==
    [kind : {"admin"}, dept : Departments, upper : BOOLEAN]
    \cup [kind : {"head", "student"}, dept : Departments, upper : {FALSE}]

\* String.prototype.toLowerCase on an address
toLowerCase(email) == [email EXCEPT !.upper = FALSE]

\* `${department.toLowerCase()}-head@spc.edu` / `...-admin@spc.edu`
expectedEmail(role, department) ==
    [kind |-> IF role = "super_admin" THEN "head" ELSE "admin",
     dept |-> department, upper |-> FALSE]

\* The opaque id the auth provider issues for an account.  The provider keeps
\* one account per address and never hands an id out twice, so the id is
\* represented by the address it was issued for.
Ids == Emails
userId(email) == email

VARIABLES
    accounts,       \* auth provider: ids of the existing accounts
    super_admins,   \* table super_admins: id -> row or Null
    admins,         \* table admins
    users,          \* table users
    clock,          \* last timestamp handed out
    session,        \* per browser: id of the signed-in account or Null
    page,           \* per browser: current route
    pc,             \* per browser: position inside the running handler
    toast,          \* per browser: last message shown
    login,          \* per browser: locals of handleLogin
    signupData,     \* per browser: the sign-up form being submitted
    superAdmin,     \* per browser: SuperAdminDashboard state superAdmin
    pendingUsers,   \* per browser: SuperAdminDashboard state pendingUsers
    approvedUsers,  \* per browser: SuperAdminDashboard state approvedUsers
    fetchPc,        \* per browser: position inside fetchUsers
    fetchTmp,       \* per browser: fetchUsers local "pending"
    posts,          \* table posts: id -> row or Null
    nextPostId,     \* the id the table gives the next inserted post
    panelToast,     \* content pages of the viewer: last message shown
    panelProfile,   \* AdminPanel: state userProfile
    archiveProfile, \* Archive: state userProfile
    archiveType,    \* Archive: state userType
    archivePosts,   \* Archive: state posts
    dashboardPosts, \* Dashboard: state posts
    selectedDepartment, \* Dashboard: state selectedDepartment
    settingsProfile,    \* ProfileSettings: state userProfile
    blobs           \* bucket profile-pictures: the paths that hold a file

tables == <<super_admins, admins, users>>
store == <<accounts, super_admins, admins, users, clock>>
dash == <<superAdmin, pendingUsers, approvedUsers, fetchPc, fetchTmp>>
postVars == <<posts, nextPostId, panelToast>>
views == <<panelProfile, archiveProfile, archiveType, archivePosts,
           dashboardPosts, selectedDepartment, settingsProfile>>
vars == <<accounts, super_admins, admins, users, clock, session, page, pc,
          toast, login, signupData, superAdmin, pendingUsers, approvedUsers,
          fetchPc, fetchTmp, posts, nextPostId, panelToast, panelProfile,
          archiveProfile, archiveType, archivePosts, dashboardPosts,
          selectedDepartment, settingsProfile, blobs>>

\* ------------------------------------------------------------------ rows
\* the row handleSignup inserts into super_admins
SuperAdminRow(id, name, email, department) ==
    [id |-> id, name |-> name, email |-> email, department |-> department]

\* the row handleSignup inserts into admins; columns approved_by /
\* approved_at are not given at insert and default to null
ProfileRow(id, name, email, department) ==
    [id |-> id, name |-> name, email |-> email, department |-> department,
     is_approved |-> FALSE, approved_by |-> Null, approved_at |-> NullTime]

\* the row handleSignup inserts into users: role 'user'; column
\* profile_picture is not given at insert and defaults to null
UserRow(id, name, email, department) ==
    [id |-> id, name |-> name, email |-> email, role |-> "user",
     department |-> department, is_approved |-> FALSE, approved_by |-> Null,
     approved_at |-> NullTime, profile_picture |-> Null]

NoLogin == [id |-> Null, superAdmin |-> Unread, adminProfile |-> Unread,
            userProfile |-> Unread, signOut |-> "none"]
NoSignup == [name |-> "", role |-> "none", department |-> "none", email |-> Null]

\* every browser on the landing page, no page of the application mounted
\* before, no post and no profile picture stored
InitBrowsers ==
    /\ session = [c \in Clients |-> Null]
    /\ page = [c \in Clients |-> "/"]
    /\ pc = [c \in Clients |-> "idle"]
    /\ toast = [c \in Clients |-> "none"]
    /\ login = [c \in Clients |-> NoLogin]
    /\ signupData = [c \in Clients |-> NoSignup]
    /\ superAdmin = [c \in Clients |-> Null]
    /\ pendingUsers = [c \in Clients |-> {}]
    /\ approvedUsers = [c \in Clients |-> {}]
    /\ fetchPc = [c \in Clients |-> "idle"]
    /\ fetchTmp = [c \in Clients |-> {}]
    /\ posts = [i \in 1..MaxPosts |-> Null]
    /\ nextPostId = 1
    /\ panelToast = "none"
    /\ panelProfile = Null
    /\ archiveProfile = Null
    /\ archiveType = "none"
    /\ archivePosts = {}
    /\ dashboardPosts = {}
    /\ selectedDepartment = "all"
    /\ settingsProfile = Null
    /\ blobs = {}

\* a new installation: no account and no profile
Init ==
    /\ accounts = {}
    /\ super_admins = [i \in Ids |-> Null]
    /\ admins = [i \in Ids |-> Null]
    /\ users = [i \in Ids |-> Null]
    /\ clock = 0
    /\ InitBrowsers

\* the addresses of the program head, the admin and a member of a department
headOf(department) == [kind |-> "head", dept |-> department, upper |-> FALSE]
adminOf(department) == [kind |-> "admin", dept |-> department, upper |-> FALSE]
studentOf(department) == [kind |-> "student", dept |-> department, upper |-> FALSE]

\* the store of an installation in use.  Its database holds the program head
\* of CCS, the admin of CCS with is_approved set, the admin of CED still
\* pending, and one approved member per department whose users row has role
\* 'user' or, as the rows AdminPanel and Dashboard look for, role 'admin'.
InstalledStore ==
    /\ accounts = {headOf("CCS"), adminOf("CCS"), adminOf("CED"),
                   studentOf("CCS"), studentOf("CED")}
    /\ super_admins = [i \in Ids |->
                          IF i = headOf("CCS") THEN SuperAdminRow(i, "Ana", i, "CCS")
                          ELSE Null]
    /\ admins = [i \in Ids |->
                    IF i = adminOf("CCS")
                    THEN [ProfileRow(i, "Ana", i, "CCS") EXCEPT !.is_approved = TRUE]
                    ELSE IF i = adminOf("CED") THEN ProfileRow(i, "Ana", i, "CED")
                    ELSE Null]
    /\ \E roles \in [Departments -> {"user", "admin"}] :
          users = [i \in Ids |->
                      IF i.kind = "student"
                      THEN [UserRow(i, "Ana", i, i.dept) EXCEPT !.is_approved = TRUE,
                                                               !.role = roles[i.dept]]
                      ELSE Null]
    /\ clock = 0

InitInstalled == InstalledStore /\ InitBrowsers

\* The browser that opens the content pages (the admin panel, the archive,
\* the feed of the dashboard, the profile settings).
Viewer == "b1"

\* a navigation unmounts the content page the browser was on: the state of
\* the component is gone, the next mount starts from useState's defaults
Closed(c) ==
    IF c = Viewer
    THEN /\ panelProfile' = Null
         /\ archiveProfile' = Null
         /\ archiveType' = "none"
         /\ archivePosts' = {}
         /\ dashboardPosts' = {}
         /\ selectedDepartment' = "all"
         /\ settingsProfile' = Null
    ELSE UNCHANGED views

\* --------------------------------------------------------- backend calls
\* .eq('id', id).maybeSingle() and .eq('department', d).maybeSingle():
\* the row when exactly one matches, null when none matches; more than one
\* matching row is answered with an error, which leaves data null
maybeSingle(rows) ==
    IF Cardinality(rows) = 1 THEN CHOOSE r \in rows : TRUE ELSE Null

\* rows of a table that satisfy .eq('id', id)
eqId(table, id) == {table[i] : i \in {j \in Ids : j = id /\ table[j] # Null}}

\* rows of a table that satisfy .eq('department', d)
eqDepartment(table, department) ==
    {table[i] : i \in {j \in Ids : table[j] # Null
                                   /\ table[j].department = department}}

\* data of a select ... maybeSingle() whose answer is "outcome"
selectData(rows, outcome) ==
    IF outcome = "ok" THEN maybeSingle(rows) ELSE Null

\* auth.signUp: an AuthError when the provider fails or the address is
\* already registered, otherwise a new account
signUpSucceeds(email, outcome) ==
    outcome = "ok" /\ userId(email) \notin accounts

\* auth.signInWithPassword: an AuthError when the provider fails, the address
\* is unknown or the password is wrong, otherwise a session for the account
signInSucceeds(email, password, outcome) ==
    outcome = "ok" /\ password = "right" /\ userId(email) \in accounts

\* --------------------------------------------------------- LandingPage
\* useEffect / checkUser: an existing session sends the visitor to /dashboard
checkUser(c) ==
    /\ pc[c] = "idle"
    /\ page[c] = "/"
    /\ session[c] # Null
    /\ page' = [page EXCEPT ![c] = "/dashboard"]
    /\ toast' = [toast EXCEPT ![c] = "none"]
    /\ login' = [login EXCEPT ![c] = NoLogin]
    /\ UNCHANGED <<store, session, pc, signupData, dash>>
    /\ Closed(c)
    /\ UNCHANGED <<postVars, blobs>>

\* handleLogin, first guard: an empty e-mail or password field
handleLoginEmpty(c) ==
    /\ pc[c] = "idle"
    /\ page[c] = "/"
    /\ toast' = [toast EXCEPT ![c] = "Please enter both email and password"]
    /\ login' = [login EXCEPT ![c] = NoLogin]
    /\ UNCHANGED <<store, session, page, pc, signupData, dash>>
    /\ UNCHANGED <<postVars, views, blobs>>

\* handleLoginSignIn with the admins lookup placed first
handleLoginSignIn_AdminsFirst(c, email, password, outcome) ==
    /\ pc[c] = "idle"
    /\ page[c] = "/"
    /\ IF signInSucceeds(email, password, outcome)
       THEN /\ session' = [session EXCEPT ![c] = userId(email)]
            /\ login' = [login EXCEPT ![c] = [NoLogin EXCEPT !.id = userId(email)]]
            /\ pc' = [pc EXCEPT ![c] = "login_admins"]
            /\ toast' = [toast EXCEPT ![c] = "Logging in..."]
       ELSE /\ login' = [login EXCEPT ![c] = NoLogin]
            /\ toast' = [toast EXCEPT ![c] = "AuthError"]
            /\ UNCHANGED <<session, pc>>
    /\ UNCHANGED <<store, page, signupData, dash>>
    /\ UNCHANGED <<postVars, views, blobs>>

\* handleLogin up to the answer of signInWithPassword
handleLoginSignIn(c, email, password, outcome) ==
    /\ pc[c] = "idle"
    /\ page[c] = "/"
    /\ IF signInSucceeds(email, password, outcome)
       THEN /\ session' = [session EXCEPT ![c] = userId(email)]
            /\ login' = [login EXCEPT ![c] = [NoLogin EXCEPT !.id = userId(email)]]
            /\ pc' = [pc EXCEPT ![c] = "login_super_admins"]
            /\ toast' = [toast EXCEPT ![c] = "Logging in..."]
       ELSE \* if (error) throw error; caught: toast.error(error.message)
            /\ login' = [login EXCEPT ![c] = NoLogin]
            /\ toast' = [toast EXCEPT ![c] = "AuthError"]
            /\ UNCHANGED <<session, pc>>
    /\ UNCHANGED <<store, page, signupData, dash>>
    /\ UNCHANGED <<postVars, views, blobs>>

\* handleLoginSuperAdmin that goes on to the users lookup
handleLoginSuperAdmin_SkipAdmins(c, outcome) ==
    /\ pc[c] = "login_super_admins"
    /\ LET superAdminData == selectData(eqId(super_admins, login[c].id), outcome)
       IN /\ login' = [login EXCEPT ![c].superAdmin = superAdminData]
          /\ IF superAdminData # Null
             THEN /\ toast' = [toast EXCEPT ![c] = "Welcome, Program Head!"]
                  /\ pc' = [pc EXCEPT ![c] = "navigate_super_admin_dashboard"]
             ELSE /\ pc' = [pc EXCEPT ![c] = "login_users"]
                  /\ UNCHANGED toast
    /\ UNCHANGED <<store, session, page, signupData, dash>>
    /\ UNCHANGED <<postVars, views, blobs>>

\* handleLogin: answer of the super_admins lookup
handleLoginSuperAdmin(c, outcome) ==
    /\ pc[c] = "login_super_admins"
    /\ LET superAdminData == selectData(eqId(super_admins, login[c].id), outcome)
       IN /\ login' = [login EXCEPT ![c].superAdmin = superAdminData]
          /\ IF superAdminData # Null
             THEN /\ toast' = [toast EXCEPT ![c] = "Welcome, Program Head!"]
                  /\ pc' = [pc EXCEPT ![c] = "navigate_super_admin_dashboard"]
             ELSE /\ pc' = [pc EXCEPT ![c] = "login_admins"]
                  /\ UNCHANGED toast
    /\ UNCHANGED <<store, session, page, signupData, dash>>
    /\ UNCHANGED <<postVars, views, blobs>>

\* handleLoginAdmin without the is_approved test
handleLoginAdmin_NoGate(c, outcome) ==
    /\ pc[c] = "login_admins"
    /\ LET adminProfile == selectData(eqId(admins, login[c].id), outcome)
       IN /\ login' = [login EXCEPT ![c].adminProfile = adminProfile]
          /\ IF adminProfile # Null
             THEN /\ toast' = [toast EXCEPT ![c] = "Welcome, Admin!"]
                  /\ pc' = [pc EXCEPT ![c] = "navigate_dashboard"]
             ELSE /\ pc' = [pc EXCEPT ![c] = "login_users"]
                  /\ UNCHANGED toast
    /\ UNCHANGED <<store, session, page, signupData, dash>>
    /\ UNCHANGED <<postVars, views, blobs>>

\* handleLogin: answer of the admins lookup
handleLoginAdmin(c, outcome) ==
    /\ pc[c] = "login_admins"
    /\ LET adminProfile == selectData(eqId(admins, login[c].id), outcome)
       IN /\ login' = [login EXCEPT ![c].adminProfile = adminProfile]
          /\ IF adminProfile # Null
             THEN IF ~adminProfile.is_approved
                  THEN /\ pc' = [pc EXCEPT ![c] = "login_signout_pending"]
                       /\ UNCHANGED toast
                  ELSE /\ toast' = [toast EXCEPT ![c] = "Welcome, Admin!"]
                       /\ pc' = [pc EXCEPT ![c] = "navigate_dashboard"]
             ELSE /\ pc' = [pc EXCEPT ![c] = "login_users"]
                  /\ UNCHANGED toast
    /\ UNCHANGED <<store, session, page, signupData, dash>>
    /\ UNCHANGED <<postVars, views, blobs>>

\* handleLoginUser without the signOut of the last branch
handleLoginUser_NoSignOut(c, outcome) ==
    /\ pc[c] = "login_users"
    /\ LET userProfile == selectData(eqId(users, login[c].id), outcome)
       IN /\ login' = [login EXCEPT ![c].userProfile = userProfile]
          /\ IF userProfile # Null
             THEN IF ~userProfile.is_approved
                  THEN /\ pc' = [pc EXCEPT ![c] = "login_signout_pending"]
                       /\ UNCHANGED toast
                  ELSE /\ toast' = [toast EXCEPT ![c] = "Login successful!"]
                       /\ pc' = [pc EXCEPT ![c] = "navigate_dashboard"]
             ELSE /\ pc' = [pc EXCEPT ![c] = "idle"]
                  /\ toast' = [toast EXCEPT ![c] = "Account not found. Please sign up first."]
    /\ UNCHANGED <<store, session, page, signupData, dash>>
    /\ UNCHANGED <<postVars, views, blobs>>

\* handleLogin: answer of the users lookup
handleLoginUser(c, outcome) ==
    /\ pc[c] = "login_users"
    /\ LET userProfile == selectData(eqId(users, login[c].id), outcome)
       IN /\ login' = [login EXCEPT ![c].userProfile = userProfile]
          /\ IF userProfile # Null
             THEN IF ~userProfile.is_approved
                  THEN /\ pc' = [pc EXCEPT ![c] = "login_signout_pending"]
                       /\ UNCHANGED toast
                  ELSE /\ toast' = [toast EXCEPT ![c] = "Login successful!"]
                       /\ pc' = [pc EXCEPT ![c] = "navigate_dashboard"]
             ELSE /\ pc' = [pc EXCEPT ![c] = "login_signout_not_found"]
                  /\ UNCHANGED toast
    /\ UNCHANGED <<store, session, page, signupData, dash>>
    /\ UNCHANGED <<postVars, views, blobs>>

\* auth.signOut: the session is removed unless the call answers with an error
signOut(c, outcome) ==
    IF outcome = "ok" THEN [session EXCEPT ![c] = Null] ELSE session

\* handleLogin: await supabase.auth.signOut() (its answer is not looked at),
\* then the error toast
handleLoginSignOut(c, outcome) ==
    /\ pc[c] \in {"login_signout_pending", "login_signout_not_found"}
    /\ session' = signOut(c, outcome)
    /\ login' = [login EXCEPT ![c].signOut = outcome]
    /\ toast' = [toast EXCEPT ![c] =
                   IF pc[c] = "login_signout_pending"
                   THEN "Your account is pending approval from your Program Head"
                   ELSE "Account not found. Please sign up first."]
    /\ pc' = [pc EXCEPT ![c] = "idle"]
    /\ UNCHANGED <<store, page, signupData, dash>>
    /\ UNCHANGED <<postVars, views, blobs>>

\* handleLogin: the setTimeout callback, navigate('/dashboard'); Dashboard's
\* checkAuth sends a visitor without a session back to '/'
handleLoginNavigateDashboard(c) ==
    /\ pc[c] = "navigate_dashboard"
    /\ page' = [page EXCEPT ![c] = IF session[c] # Null THEN "/dashboard" ELSE "/"]
    /\ pc' = [pc EXCEPT ![c] = "idle"]
    /\ login' = [login EXCEPT ![c] = NoLogin]
    /\ UNCHANGED <<store, session, toast, signupData, dash>>
    /\ Closed(c)
    /\ UNCHANGED <<postVars, blobs>>

\* handleLogin: the setTimeout callback, navigate('/super-admin-dashboard');
\* the page mounts and starts checkSuperAdmin
handleLoginNavigateSuperAdmin(c) ==
    /\ pc[c] = "navigate_super_admin_dashboard"
    /\ page' = [page EXCEPT ![c] = "/super-admin-dashboard"]
    /\ pc' = [pc EXCEPT ![c] = "checkSuperAdmin"]
    /\ login' = [login EXCEPT ![c] = NoLogin]
    /\ UNCHANGED <<store, session, toast, signupData, dash>>
    /\ Closed(c)
    /\ UNCHANGED <<postVars, blobs>>

handleLogin(c, answers) ==
    \/ handleLoginEmpty(c)
    \/ \E email \in Emails, password \in {"right", "wrong"}, outcome \in answers :
          handleLoginSignIn(c, email, password, outcome)
    \/ \E outcome \in answers : handleLoginSuperAdmin(c, outcome)
    \/ \E outcome \in answers : handleLoginAdmin(c, outcome)
    \/ \E outcome \in answers : handleLoginUser(c, outcome)
    \/ \E outcome \in answers : handleLoginSignOut(c, outcome)
    \/ handleLoginNavigateDashboard(c)
    \/ handleLoginNavigateSuperAdmin(c)

\* validationError without the test of the password's length
validationError_AnyLength(f) ==
    IF f.name = "" \/ f.email = Null \/ f.password = "" \/ f.confirmPassword = ""
    THEN "All fields are required"
    ELSE IF f.password # f.confirmPassword
    THEN "Passwords do not match"
    ELSE "none"

\* handleSignup, the three tests on the fields of the form ("none": all pass)
validationError(f) ==
    IF f.name = "" \/ f.email = Null \/ f.password = "" \/ f.confirmPassword = ""
    THEN "All fields are required"
    ELSE IF f.password # f.confirmPassword
    THEN "Passwords do not match"
    ELSE IF Len(f.password) < MinPasswordLength
    THEN "Password must be at least 6 characters"
    ELSE "none"

\* conventionError comparing the address as it was typed
conventionError_AsTyped(f) ==
    IF f.role = "super_admin" /\ f.email # expectedEmail(f.role, f.department)
    THEN "Program Head email must be expectedEmail"
    ELSE IF f.role = "admin" /\ f.email # expectedEmail(f.role, f.department)
    THEN "Admin email must be expectedEmail"
    ELSE "none"

\* handleSignup, the e-mail convention of roles super_admin and admin
conventionError(f) ==
    IF f.role = "super_admin" /\ toLowerCase(f.email) # expectedEmail(f.role, f.department)
    THEN "Program Head email must be expectedEmail"
    ELSE IF f.role = "admin" /\ toLowerCase(f.email) # expectedEmail(f.role, f.department)
    THEN "Admin email must be expectedEmail"
    ELSE "none"

\* handleSignup up to its first await: the tests on the fields, the e-mail
\* convention of the role, then either the uniqueness lookup (admin,
\* super_admin) or auth.signUp (user)
handleSignupSubmit(c, f) ==
    /\ pc[c] = "idle"
    /\ page[c] = "/"
    /\ login' = [login EXCEPT ![c] = NoLogin]
    /\ IF validationError(f) # "none"
       THEN /\ toast' = [toast EXCEPT ![c] = validationError(f)]
            /\ UNCHANGED <<pc, signupData>>
       ELSE IF conventionError(f) # "none"
       THEN /\ toast' = [toast EXCEPT ![c] = conventionError(f)]
            /\ UNCHANGED <<pc, signupData>>
       ELSE /\ signupData' = [signupData EXCEPT ![c] =
                   [name |-> f.name, role |-> f.role, department |-> f.department,
                    email |-> f.email]]
            /\ IF f.role \in {"super_admin", "admin"}
               THEN /\ pc' = [pc EXCEPT ![c] = "signup_existing"]
                    /\ toast' = [toast EXCEPT ![c] = "none"]
               ELSE /\ pc' = [pc EXCEPT ![c] = "signup_signUp"]
                    /\ toast' = [toast EXCEPT ![c] = "Creating account..."]
    /\ UNCHANGED <<store, session, page, dash>>
    /\ UNCHANGED <<postVars, views, blobs>>

\* handleSignupExisting without the test of existingAdmin / existingSuperAdmin
handleSignupExisting_NoCheck(c, outcome) ==
    /\ pc[c] = "signup_existing"
    /\ toast' = [toast EXCEPT ![c] = "Creating account..."]
    /\ pc' = [pc EXCEPT ![c] = "signup_signUp"]
    /\ UNCHANGED <<store, session, page, login, signupData, dash>>
    /\ UNCHANGED <<postVars, views, blobs>>

\* handleSignup: answer of the uniqueness lookup; the error of the answer is
\* not read, only its data
handleSignupExisting(c, outcome) ==
    /\ pc[c] = "signup_existing"
    /\ LET table == IF signupData[c].role = "super_admin" THEN super_admins ELSE admins
           existing == selectData(eqDepartment(table, signupData[c].department), outcome)
       IN IF existing # Null
          THEN /\ toast' = [toast EXCEPT ![c] =
                              IF signupData[c].role = "super_admin"
                              THEN "A Program Head for department already exists"
                              ELSE "An Admin for department already exists"]
               /\ pc' = [pc EXCEPT ![c] = "idle"]
               /\ signupData' = [signupData EXCEPT ![c] = NoSignup]
          ELSE /\ toast' = [toast EXCEPT ![c] = "Creating account..."]
               /\ pc' = [pc EXCEPT ![c] = "signup_signUp"]
               /\ UNCHANGED signupData
    /\ UNCHANGED <<store, session, page, login, dash>>
    /\ UNCHANGED <<postVars, views, blobs>>

\* handleSignup: answer of auth.signUp
handleSignupSignUp(c, outcome) ==
    /\ pc[c] = "signup_signUp"
    /\ IF signUpSucceeds(signupData[c].email, outcome)
       THEN /\ Cardinality(accounts) < MaxAccounts
            /\ accounts' = accounts \cup {userId(signupData[c].email)}
            /\ pc' = [pc EXCEPT ![c] = "signup_insert"]
            /\ UNCHANGED <<toast, signupData>>
       ELSE \* if (error) throw error; caught: toast.error(error.message)
            /\ toast' = [toast EXCEPT ![c] = "AuthError"]
            /\ pc' = [pc EXCEPT ![c] = "idle"]
            /\ signupData' = [signupData EXCEPT ![c] = NoSignup]
            /\ UNCHANGED accounts
    /\ UNCHANGED <<tables, clock, session, page, login, dash>>
    /\ UNCHANGED <<postVars, views, blobs>>

\* handleSignupInsert without the return after the insert into admins
handleSignupInsert_NoReturn(c, outcome) ==
    /\ pc[c] = "signup_insert"
    /\ LET role == signupData[c].role
           id == userId(signupData[c].email)
           name == signupData[c].name
           email == signupData[c].email
           department == signupData[c].department
       IN IF outcome = "ok"
          THEN /\ super_admins' = IF role = "super_admin"
                                  THEN [super_admins EXCEPT ![id] = SuperAdminRow(id, name, email, department)]
                                  ELSE super_admins
               /\ admins' = IF role = "admin"
                            THEN [admins EXCEPT ![id] = ProfileRow(id, name, email, department)]
                            ELSE admins
               /\ users' = IF role \in {"user", "admin"}
                           THEN [users EXCEPT ![id] = UserRow(id, name, email, department)]
                           ELSE users
               /\ toast' = [toast EXCEPT ![c] = "Account created successfully!"]
          ELSE /\ toast' = [toast EXCEPT ![c] = "insert error"]
               /\ UNCHANGED tables
    /\ pc' = [pc EXCEPT ![c] = "idle"]
    /\ signupData' = [signupData EXCEPT ![c] = NoSignup]
    /\ UNCHANGED <<accounts, clock, session, page, login, dash>>
    /\ UNCHANGED <<postVars, views, blobs>>

\* handleSignupInsert that writes is_approved: true into users
handleSignupInsert_UserApproved(c, outcome) ==
    /\ pc[c] = "signup_insert"
    /\ LET role == signupData[c].role
           id == userId(signupData[c].email)
           name == signupData[c].name
           email == signupData[c].email
           department == signupData[c].department
       IN IF outcome = "ok"
          THEN /\ super_admins' = IF role = "super_admin"
                                  THEN [super_admins EXCEPT ![id] = SuperAdminRow(id, name, email, department)]
                                  ELSE super_admins
               /\ admins' = IF role = "admin"
                            THEN [admins EXCEPT ![id] = ProfileRow(id, name, email, department)]
                            ELSE admins
               /\ users' = IF role = "user"
                           THEN [users EXCEPT ![id] =
                                   [UserRow(id, name, email, department) EXCEPT !.is_approved = TRUE]]
                           ELSE users
               /\ toast' = [toast EXCEPT ![c] =
                              CASE role = "super_admin" -> "Program Head account created! Please verify your email."
                                [] role = "admin" -> "Admin account created successfully!"
                                [] OTHER -> "Account created successfully!"]
          ELSE /\ toast' = [toast EXCEPT ![c] = "insert error"]
               /\ UNCHANGED tables
    /\ pc' = [pc EXCEPT ![c] = "idle"]
    /\ signupData' = [signupData EXCEPT ![c] = NoSignup]
    /\ UNCHANGED <<accounts, clock, session, page, login, dash>>
    /\ UNCHANGED <<postVars, views, blobs>>

\* handleSignup: answer of the insert into the collection of the role
handleSignupInsert(c, outcome) ==
    /\ pc[c] = "signup_insert"
    /\ LET role == signupData[c].role
           id == userId(signupData[c].email)
           name == signupData[c].name
           email == signupData[c].email
           department == signupData[c].department
       IN IF outcome = "ok"
          THEN /\ super_admins' = IF role = "super_admin"
                                  THEN [super_admins EXCEPT ![id] = SuperAdminRow(id, name, email, department)]
                                  ELSE super_admins
               /\ admins' = IF role = "admin"
                            THEN [admins EXCEPT ![id] = ProfileRow(id, name, email, department)]
                            ELSE admins
               /\ users' = IF role = "user"
                           THEN [users EXCEPT ![id] = UserRow(id, name, email, department)]
                           ELSE users
               /\ toast' = [toast EXCEPT ![c] =
                              CASE role = "super_admin" -> "Program Head account created! Please verify your email."
                                [] role = "admin" -> "Admin account created successfully!"
                                [] OTHER -> "Account created successfully!"]
          ELSE \* if (error) throw error; caught: toast.error(error.message)
               /\ toast' = [toast EXCEPT ![c] = "insert error"]
               /\ UNCHANGED tables
    /\ pc' = [pc EXCEPT ![c] = "idle"]
    /\ signupData' = [signupData EXCEPT ![c] = NoSignup]
    /\ UNCHANGED <<accounts, clock, session, page, login, dash>>
    /\ UNCHANGED <<postVars, views, blobs>>

\* What is typed into the name and password fields of the sign-up form
Names == {"", "Ana"}
Passwords == {"", "12345", "123456"}

\* Every form: any name and passwords; no address, or for role user a
\* student's address or the admin address of the department, for roles admin
\* and super_admin any address.
AllForms ==
    {f \in [name : Names, email : Emails \cup {Null}, password : Passwords,
            confirmPassword : Passwords, role : Roles, department : Departments] :
        \/ f.email = Null
        \/ /\ f.role = "user" /\ f.email.dept = f.department
           /\ f.email.kind \in {"student", "admin"} /\ ~f.email.upper
        \/ f.role \in {"admin", "super_admin"}}

\* The forms of visitors who fill in every field, with a password of six
\* characters typed twice, and who register under role user with their own
\* address.
SignupForms ==
    {f \in AllForms :
        /\ validationError(f) = "none"
        /\ f.role = "user" => f.email.kind = "student"}

handleSignup(c, answers, forms) ==
    \/ \E f \in forms : handleSignupSubmit(c, f)
    \/ \E outcome \in answers : handleSignupExisting(c, outcome)
    \/ \E outcome \in answers : handleSignupSignUp(c, outcome)
    \/ \E outcome \in answers : handleSignupInsert(c, outcome)

\* ------------------------------------------------------------- Dashboard
\* Dashboard.handleLogout: signOut, and navigate('/') unless it answered with
\* an error
DashboardLogout(c, outcome) ==
    /\ pc[c] = "idle"
    /\ page[c] = "/dashboard"
    /\ session' = signOut(c, outcome)
    /\ IF outcome = "ok"
       THEN /\ page' = [page EXCEPT ![c] = "/"]
            /\ toast' = [toast EXCEPT ![c] = "Logged out successfully"]
       ELSE /\ toast' = [toast EXCEPT ![c] = "Failed to log out"]
            /\ UNCHANGED page
    /\ UNCHANGED <<store, pc, login, signupData, dash>>
    /\ Closed(c)
    /\ UNCHANGED <<postVars, blobs>>

\* ------------------------------------------------- SuperAdminDashboard
\* state of a SuperAdminDashboard that is not mounted
Unmounted(c) ==
    /\ superAdmin' = [superAdmin EXCEPT ![c] = Null]
    /\ pendingUsers' = [pendingUsers EXCEPT ![c] = {}]
    /\ approvedUsers' = [approvedUsers EXCEPT ![c] = {}]
    /\ fetchPc' = [fetchPc EXCEPT ![c] = "idle"]
    /\ fetchTmp' = [fetchTmp EXCEPT ![c] = {}]

\* checkSuperAdmin: getSession, then the super_admins row of the session's id
\* (.single(): no row is an error); on success fetchUsers(department) starts
checkSuperAdmin(c, outcome) ==
    /\ pc[c] = "checkSuperAdmin"
    /\ pc' = [pc EXCEPT ![c] = "idle"]
    /\ IF session[c] = Null
       THEN /\ page' = [page EXCEPT ![c] = "/"]
            /\ UNCHANGED <<toast, dash>>
       ELSE LET superAdminData == selectData(eqId(super_admins, session[c]), outcome)
            IN IF superAdminData = Null
               THEN /\ toast' = [toast EXCEPT ![c] = "Unauthorized access"]
                    /\ page' = [page EXCEPT ![c] = "/dashboard"]
                    /\ UNCHANGED dash
               ELSE /\ superAdmin' = [superAdmin EXCEPT ![c] = superAdminData]
                    /\ fetchPc' = [fetchPc EXCEPT ![c] = "pending"]
                    /\ UNCHANGED <<toast, page, pendingUsers, approvedUsers, fetchTmp>>
    /\ UNCHANGED <<store, session, login, signupData>>
    /\ Closed(c)
    /\ UNCHANGED <<postVars, blobs>>

\* SuperAdminDashboard.handleLogout: signOut (its answer is not looked at) and
\* navigate('/'), where checkUser finds the session if it is still there
SuperAdminLogout(c, outcome) ==
    /\ pc[c] = "idle"
    /\ page[c] = "/super-admin-dashboard"
    /\ superAdmin[c] # Null
    /\ fetchPc[c] = "idle"
    /\ session' = signOut(c, outcome)
    /\ page' = [page EXCEPT ![c] = "/"]
    /\ toast' = [toast EXCEPT ![c] = "Logged out successfully"]
    /\ Unmounted(c)
    /\ UNCHANGED <<store, pc, login, signupData>>
    /\ Closed(c)
    /\ UNCHANGED <<postVars, blobs>>

\* ids of the users rows that satisfy .eq('department', d).eq('is_approved', b)
usersOf(department, approved) ==
    {i \in Ids : users[i] # Null /\ users[i].department = department
                 /\ users[i].is_approved = approved}

\* fetchUsers: answer of the query for the pending users of the department
fetchUsersPending(c, outcome) ==
    /\ fetchPc[c] = "pending"
    /\ IF outcome = "ok"
       THEN /\ fetchTmp' = [fetchTmp EXCEPT ![c] = usersOf(superAdmin[c].department, FALSE)]
            /\ fetchPc' = [fetchPc EXCEPT ![c] = "approved"]
            /\ UNCHANGED toast
       ELSE \* if (pendingError) throw pendingError; caught
            /\ toast' = [toast EXCEPT ![c] = "Failed to load users"]
            /\ fetchPc' = [fetchPc EXCEPT ![c] = "idle"]
            /\ UNCHANGED fetchTmp
    /\ UNCHANGED <<store, session, page, pc, login, signupData, superAdmin,
                   pendingUsers, approvedUsers>>
    /\ UNCHANGED <<postVars, views, blobs>>

\* fetchUsers: answer of the query for the approved users, then
\* setPendingUsers and setApprovedUsers
fetchUsersApproved(c, outcome) ==
    /\ fetchPc[c] = "approved"
    /\ fetchPc' = [fetchPc EXCEPT ![c] = "idle"]
    /\ fetchTmp' = [fetchTmp EXCEPT ![c] = {}]
    /\ IF outcome = "ok"
       THEN /\ pendingUsers' = [pendingUsers EXCEPT ![c] = fetchTmp[c]]
            /\ approvedUsers' = [approvedUsers EXCEPT ![c] = usersOf(superAdmin[c].department, TRUE)]
            /\ UNCHANGED toast
       ELSE \* if (approvedError) throw approvedError; caught
            /\ toast' = [toast EXCEPT ![c] = "Failed to load users"]
            /\ UNCHANGED <<pendingUsers, approvedUsers>>
    /\ UNCHANGED <<store, session, page, pc, login, signupData, superAdmin>>
    /\ UNCHANGED <<postVars, views, blobs>>

fetchUsers(c, answers) ==
    \/ \E outcome \in answers : fetchUsersPending(c, outcome)
    \/ \E outcome \in answers : fetchUsersApproved(c, outcome)

\* approveUpdate without approved_by
approveUpdate_NoApprover(row, by, at) ==
    [row EXCEPT !.is_approved = TRUE, !.approved_at = at]

\* the object handleApprove passes to .update()
approveUpdate(row, by, at) ==
    [row EXCEPT !.is_approved = TRUE, !.approved_by = by, !.approved_at = at]

\* revokeUpdate without approved_at
revokeUpdate_KeepsTime(row) ==
    [row EXCEPT !.is_approved = FALSE, !.approved_by = Null]

\* the object handleRevokeApproval passes to .update()
revokeUpdate(row) ==
    [row EXCEPT !.is_approved = FALSE, !.approved_by = Null, !.approved_at = NullTime]

\* state "loading": set by fetchUsers when it starts, cleared when it ends
loading(c) == fetchPc[c] # "idle"

\* the dashboard is rendered (not the spinner) and its buttons can be clicked
dashboardReady(c) ==
    /\ pc[c] = "idle"
    /\ page[c] = "/super-admin-dashboard"
    /\ superAdmin[c] # Null
    /\ ~loading(c)

\* what every approval handler does after a successful call: the toast, and
\* fetchUsers(superAdmin.department) started without awaiting it
handlerDone(c, message) ==
    /\ toast' = [toast EXCEPT ![c] = message]
    /\ fetchPc' = [fetchPc EXCEPT ![c] = "pending"]
    /\ fetchTmp' = [fetchTmp EXCEPT ![c] = {}]
    /\ UNCHANGED <<superAdmin, pendingUsers, approvedUsers>>

\* handleApprove(userId): update users set is_approved, approved_by,
\* approved_at where id = userId
handleApprove(c, id, outcome) ==
    /\ dashboardReady(c)
    /\ clock < MaxClock
    /\ IF outcome = "ok"
       THEN /\ clock' = clock + 1
            /\ users' = [i \in Ids |->
                           IF i = id /\ users[i] # Null
                           THEN approveUpdate(users[i], superAdmin[c].id, clock + 1)
                           ELSE users[i]]
            /\ handlerDone(c, "userName has been approved!")
       ELSE /\ toast' = [toast EXCEPT ![c] = "Failed to approve user"]
            /\ UNCHANGED <<users, clock, dash>>
    /\ UNCHANGED <<accounts, super_admins, admins, session, page, pc, login, signupData>>
    /\ UNCHANGED <<postVars, views, blobs>>

\* handleReject(userId), confirmed in the dialog: delete from users where
\* id = userId
handleReject(c, id, outcome) ==
    /\ dashboardReady(c)
    /\ IF outcome = "ok"
       THEN /\ users' = [i \in Ids |-> IF i = id THEN Null ELSE users[i]]
            /\ handlerDone(c, "userName has been rejected and removed")
       ELSE /\ toast' = [toast EXCEPT ![c] = "Failed to reject user"]
            /\ UNCHANGED <<users, dash>>
    /\ UNCHANGED <<accounts, super_admins, admins, clock, session, page, pc,
                   login, signupData>>
    /\ UNCHANGED <<postVars, views, blobs>>

\* handleRevokeApproval(userId), confirmed in the dialog: update users set
\* is_approved = false, approved_by = null, approved_at = null where id = userId
handleRevokeApproval(c, id, outcome) ==
    /\ dashboardReady(c)
    /\ IF outcome = "ok"
       THEN /\ users' = [i \in Ids |->
                           IF i = id /\ users[i] # Null
                           THEN revokeUpdate(users[i])
                           ELSE users[i]]
            /\ handlerDone(c, "Approval revoked for userName")
       ELSE /\ toast' = [toast EXCEPT ![c] = "Failed to revoke approval"]
            /\ UNCHANGED <<users, dash>>
    /\ UNCHANGED <<accounts, super_admins, admins, clock, session, page, pc,
                   login, signupData>>
    /\ UNCHANGED <<postVars, views, blobs>>

\* ------------------------------------------------- AdminPanel, Archive
PostTypes == {"announcement", "event"}
\* values of the datetime-local input; "" is the empty input
EventDates == {"2025-06-01T09:00", "2025-12-01T18:30"}
\* SQL null in column event_date
NullDate == "null"

\* state formData as it can be typed: empty or filled title and content, one
\* of the two types of the select, an empty or filled event date
PostForms ==
    [title : {"", "Title"}, content : {"", "Content"}, type : PostTypes,
     event_date : {""} \cup EventDates]

\* .eq('id', id).single(): the row when exactly one matches; no row, or an
\* answer with an error, leaves data null and sets the error
single(table, id, outcome) ==
    IF outcome = "ok" /\ id # Null THEN table[id] ELSE Null

\* a content page of the viewer has finished checkAuth and is rendered
mounted(route) == pc[Viewer] = "idle" /\ page[Viewer] = route

\* AdminPanel.checkAuth: getSession, then the users row of the session's id,
\* which must have role 'admin'
AdminPanelCheckAuth(outcome) ==
    /\ pc[Viewer] = "checkAuth"
    /\ page[Viewer] = "/admin"
    /\ pc' = [pc EXCEPT ![Viewer] = "idle"]
    /\ LET profile == single(users, session[Viewer], outcome)
       IN IF session[Viewer] = Null \/ profile = Null
          THEN \* navigate('/'), from the test of the session or from the catch
               /\ page' = [page EXCEPT ![Viewer] = "/"]
               /\ UNCHANGED <<panelToast, panelProfile>>
          ELSE IF profile.role # "admin"
          THEN /\ panelToast' = "Access denied. Admin only."
               /\ page' = [page EXCEPT ![Viewer] = "/dashboard"]
               /\ UNCHANGED panelProfile
          ELSE /\ panelProfile' = profile
               /\ UNCHANGED <<panelToast, page>>
    /\ UNCHANGED <<store, session, toast, login, signupData, dash, posts, nextPostId,
                   archiveProfile, archiveType, archivePosts, dashboardPosts,
                   selectedDepartment, settingsProfile, blobs>>

\* the panel is rendered for an admin
panelReady == mounted("/admin") /\ panelProfile # Null

\* handleCreatePost / handleEditPost, the two tests on formData ("none": pass)
postError(form) ==
    IF form.title = "" \/ form.content = ""
    THEN "Title and content are required"
    ELSE IF form.type = "event" /\ form.event_date = ""
    THEN "Event date is required for events"
    ELSE "none"

\* postValues that stores the date of the form whatever the type
postValues_KeepsDate(form) ==
    [title |-> form.title, content |-> form.content, type |-> form.type,
     event_date |-> IF form.event_date = "" THEN NullDate ELSE form.event_date]

\* the columns handleCreatePost and handleEditPost write from formData
postValues(form) ==
    [title |-> form.title, content |-> form.content, type |-> form.type,
     event_date |-> IF form.type = "event" THEN form.event_date ELSE NullDate]

\* PostRow that stamps department 'CCS' whoever creates the post
PostRow_FixedDepartment(form, userProfile) ==
    [title |-> postValues(form).title, content |-> postValues(form).content,
     type |-> postValues(form).type, event_date |-> postValues(form).event_date,
     department |-> "CCS", author_id |-> userProfile.id,
     status |-> "active"]

\* the row handleCreatePost inserts
PostRow(form, userProfile) ==
    [title |-> postValues(form).title, content |-> postValues(form).content,
     type |-> postValues(form).type, event_date |-> postValues(form).event_date,
     department |-> userProfile.department, author_id |-> userProfile.id,
     status |-> "active"]

\* handleCreatePost with formData = form
handleCreatePost(form, outcome) ==
    /\ panelProfile # Null
    /\ IF postError(form) # "none"
       THEN /\ panelToast' = postError(form)
            /\ UNCHANGED <<posts, nextPostId>>
       ELSE IF outcome = "ok"
       THEN /\ nextPostId <= MaxPosts
            /\ posts' = [posts EXCEPT ![nextPostId] = PostRow(form, panelProfile)]
            /\ nextPostId' = nextPostId + 1
            /\ panelToast' = "Post created successfully!"
       ELSE /\ panelToast' = "insert error"
            /\ UNCHANGED <<posts, nextPostId>>
    /\ UNCHANGED <<store, session, page, pc, toast, login, signupData, dash, views, blobs>>

\* handleEditPost that also writes status 'active'
handleEditPost_Reactivates(id, form, outcome) ==
    /\ IF postError(form) # "none"
       THEN /\ panelToast' = postError(form)
            /\ UNCHANGED posts
       ELSE IF outcome = "ok"
       THEN /\ posts' = [posts EXCEPT ![id] =
                           IF posts[id] = Null THEN Null
                           ELSE [posts[id] EXCEPT !.title = postValues(form).title,
                                                  !.content = postValues(form).content,
                                                  !.type = postValues(form).type,
                                                  !.event_date = postValues(form).event_date,
                                                  !.status = "active"]]
            /\ panelToast' = "Post updated successfully!"
       ELSE /\ panelToast' = "update error"
            /\ UNCHANGED posts
    /\ UNCHANGED <<store, session, page, pc, toast, login, signupData, dash, nextPostId,
                   views, blobs>>

\* handleEditPost with editingPost.id = id and formData = form
handleEditPost(id, form, outcome) ==
    /\ IF postError(form) # "none"
       THEN /\ panelToast' = postError(form)
            /\ UNCHANGED posts
       ELSE IF outcome = "ok"
       THEN /\ posts' = [posts EXCEPT ![id] =
                           IF posts[id] = Null THEN Null
                           ELSE [posts[id] EXCEPT !.title = postValues(form).title,
                                                  !.content = postValues(form).content,
                                                  !.type = postValues(form).type,
                                                  !.event_date = postValues(form).event_date]]
            /\ panelToast' = "Post updated successfully!"
       ELSE /\ panelToast' = "update error"
            /\ UNCHANGED posts
    /\ UNCHANGED <<store, session, page, pc, toast, login, signupData, dash, nextPostId,
                   views, blobs>>

\* handleDeletePost(postId), confirmed in the dialog
handleDeletePost(id, outcome) ==
    /\ IF outcome = "ok"
       THEN /\ posts' = [posts EXCEPT ![id] = Null]
            /\ panelToast' = "Post deleted successfully!"
       ELSE /\ panelToast' = "delete error"
            /\ UNCHANGED posts
    /\ UNCHANGED <<store, session, page, pc, toast, login, signupData, dash, nextPostId,
                   views, blobs>>

\* handleArchivePost(postId) and Archive's handleRestorePost(postId): update
\* posts set status where id = postId
setStatus(id, status, message, outcome) ==
    /\ IF outcome = "ok"
       THEN /\ posts' = [posts EXCEPT ![id] =
                           IF posts[id] = Null THEN Null
                           ELSE [posts[id] EXCEPT !.status = status]]
            /\ panelToast' = message
       ELSE /\ panelToast' = "update error"
            /\ UNCHANGED posts
    /\ UNCHANGED <<store, session, page, pc, toast, login, signupData, dash, nextPostId,
                   views, blobs>>

handleArchivePost(id, outcome) ==
    setStatus(id, "archived", "Post archived successfully!", outcome)

handleRestorePost(id, outcome) ==
    setStatus(id, "active", "Post restored successfully!", outcome)

\* a row of posts as a query returns it, with its id
postOf(i) ==
    [id |-> i, title |-> posts[i].title, content |-> posts[i].content,
     type |-> posts[i].type, event_date |-> posts[i].event_date,
     department |-> posts[i].department, author_id |-> posts[i].author_id,
     status |-> posts[i].status]

\* from('posts').select().eq('status', status)
postsWithStatus(status) ==
    {postOf(i) : i \in {j \in 1..MaxPosts : posts[j] # Null /\ posts[j].status = status}}

\* AdminPanel state posts after fetchPosts: the posts whose author_id is the
\* id of the panel's profile; the panel draws its buttons for them
panelPosts ==
    {i \in 1..MaxPosts : posts[i] # Null /\ posts[i].author_id = panelProfile.id}

\* the buttons of the rendered panel: create, and for each listed post edit,
\* delete, and archive while its status is 'active'
PanelButtons(forms, answers) ==
    /\ panelReady
    /\ \/ \E form \in forms, outcome \in answers : handleCreatePost(form, outcome)
       \/ \E id \in panelPosts, form \in forms, outcome \in answers :
             handleEditPost(id, form, outcome)
       \/ \E id \in panelPosts, outcome \in answers : handleDeletePost(id, outcome)
       \/ \E id \in panelPosts, outcome \in answers :
             posts[id].status = "active" /\ handleArchivePost(id, outcome)

\* Archive.checkAuth: getSession, then the row of the session's id in
\* super_admins, admins and users in this order (maybeSingle; the error of an
\* answer is not read), the first row found gives userProfile and userType
ArchiveCheckAuth(superAdminOutcome, adminOutcome, userOutcome) ==
    /\ pc[Viewer] = "checkAuth"
    /\ page[Viewer] = "/archive"
    /\ pc' = [pc EXCEPT ![Viewer] = "idle"]
    /\ IF session[Viewer] = Null
       THEN /\ page' = [page EXCEPT ![Viewer] = "/"]
            /\ UNCHANGED <<panelToast, archiveProfile, archiveType>>
       ELSE LET superAdminData == selectData(eqId(super_admins, session[Viewer]), superAdminOutcome)
                admin == selectData(eqId(admins, session[Viewer]), adminOutcome)
                regularUser == selectData(eqId(users, session[Viewer]), userOutcome)
            IN IF superAdminData # Null
               THEN /\ archiveProfile' = superAdminData
                    /\ archiveType' = "super_admin"
                    /\ UNCHANGED <<panelToast, page>>
               ELSE IF admin # Null
               THEN /\ archiveProfile' = admin
                    /\ archiveType' = "admin"
                    /\ UNCHANGED <<panelToast, page>>
               ELSE IF regularUser # Null
               THEN /\ archiveProfile' = regularUser
                    /\ archiveType' = "user"
                    /\ UNCHANGED <<panelToast, page>>
               ELSE /\ panelToast' = "User profile not found"
                    /\ page' = [page EXCEPT ![Viewer] = "/"]
                    /\ UNCHANGED <<archiveProfile, archiveType>>
    /\ UNCHANGED <<store, session, toast, login, signupData, dash, posts, nextPostId,
                   panelProfile, archivePosts, dashboardPosts, selectedDepartment,
                   settingsProfile, blobs>>

\* the archive is rendered for a profile
archiveReady == mounted("/archive") /\ archiveProfile # Null

\* Archive.fetchPosts: the archived posts, for userType 'admin' those with
\* the profile's id as author_id, for userType 'user' those of the profile's
\* department, for a super admin all of them
ArchiveFetchPosts(outcome) ==
    /\ archiveReady
    /\ IF outcome = "ok"
       THEN /\ archivePosts' =
                  {post \in postsWithStatus("archived") :
                      /\ archiveType = "admin" => post.author_id = archiveProfile.id
                      /\ archiveType = "user" => post.department = archiveProfile.department}
            /\ UNCHANGED panelToast
       ELSE /\ panelToast' = "Failed to load archived posts"
            /\ UNCHANGED archivePosts
    /\ UNCHANGED <<store, session, page, pc, toast, login, signupData, dash, posts,
                   nextPostId, panelProfile, archiveProfile, archiveType,
                   dashboardPosts, selectedDepartment, settingsProfile, blobs>>

\* Archive render: the Restore button is drawn for a post when isOwnPost
isOwnPost(post) == archiveType = "admin" /\ post.author_id = archiveProfile.id

\* ------------------------------------------------------- Dashboard feed
\* Dashboard.fetchPosts, started when the page has its session: the posts
\* with status 'active'
DashboardFetchPosts(outcome) ==
    /\ mounted("/dashboard")
    /\ session[Viewer] # Null
    /\ IF outcome = "ok"
       THEN /\ dashboardPosts' = postsWithStatus("active")
            /\ UNCHANGED panelToast
       ELSE /\ panelToast' = "Failed to load posts"
            /\ UNCHANGED dashboardPosts
    /\ UNCHANGED <<store, session, page, pc, toast, login, signupData, dash, posts,
                   nextPostId, panelProfile, archiveProfile, archiveType, archivePosts,
                   selectedDepartment, settingsProfile, blobs>>

\* handleDepartmentSelect(dept), from the sidebar: 'all' or a department
handleDepartmentSelect(dept) ==
    /\ mounted("/dashboard")
    /\ selectedDepartment # dept
    /\ selectedDepartment' = dept
    /\ UNCHANGED <<store, session, page, pc, toast, login, signupData, dash, postVars,
                   panelProfile, archiveProfile, archiveType, archivePosts,
                   dashboardPosts, settingsProfile, blobs>>

\* Dashboard state filteredPosts, the posts the feed shows
filteredPosts ==
    IF selectedDepartment = "all" THEN dashboardPosts
    ELSE {post \in dashboardPosts : post.department = selectedDepartment}

\* ------------------------------------------------------ ProfileSettings
\* ProfileSettings.checkAuth: getSession, then the users row of the session's
\* id; without a session or a row the page leaves for '/'
ProfileSettingsCheckAuth(outcome) ==
    /\ pc[Viewer] = "checkAuth"
    /\ page[Viewer] = "/profile"
    /\ pc' = [pc EXCEPT ![Viewer] = "idle"]
    /\ LET profile == single(users, session[Viewer], outcome)
       IN IF session[Viewer] = Null \/ profile = Null
          THEN /\ page' = [page EXCEPT ![Viewer] = "/"]
               /\ UNCHANGED settingsProfile
          ELSE /\ settingsProfile' = profile
               /\ UNCHANGED page
    /\ UNCHANGED <<store, session, toast, login, signupData, dash, postVars,
                   panelProfile, archiveProfile, archiveType, archivePosts,
                   dashboardPosts, selectedDepartment, blobs>>

\* the settings are rendered for a profile
settingsReady == mounted("/profile") /\ settingsProfile # Null

\* file.size > 2 * 1024 * 1024
MaxImageSize == 2 * 1024 * 1024

\* The files of the file input: no file chosen (Null), or a file with the
\* first part of its mimetype, its size in bytes and the extension of its name.
Files ==
    [type : {"image", "application"}, size : {MaxImageSize, MaxImageSize + 1},
     ext : {"png"}]

\* fileError without the test of the size
fileError_AnySize(file) ==
    IF file.type # "image" THEN "Please upload an image file"
    ELSE "none"

\* handleProfilePictureUpload, the two tests on the chosen file ("none": pass):
\* file.type.startsWith('image/') and the size
fileError(file) ==
    IF file.type # "image" THEN "Please upload an image file"
    ELSE IF file.size > MaxImageSize THEN "Image size must be less than 2MB"
    ELSE "none"

\* `${userProfile.id}/${Date.now()}.${fileExt}`
fileName(id, now, fileExt) == [folder |-> id, name |-> now, ext |-> fileExt]

\* getPublicUrl(fileName): the address of the bucket followed by the path
publicUrl(path) ==
    [bucket |-> "storage/v1/object/public/profile-pictures",
     folder |-> path.folder, name |-> path.name, ext |-> path.ext]

\* profile_picture.split('/').slice(-2).join('/'): the last two parts of the
\* address, the folder and the name of the file
oldPath(url) == [folder |-> url.folder, name |-> url.name, ext |-> url.ext]

\* storage.remove([path]): the file is gone unless the call answers with an
\* error; the answer is not read
remove(path, outcome) == IF outcome = "ok" THEN blobs \ {path} ELSE blobs

\* update users set profile_picture = picture where id = id
setPicture(id, picture) ==
    [i \in Ids |-> IF i = id /\ users[i] # Null
                   THEN [users[i] EXCEPT !.profile_picture = picture]
                   ELSE users[i]]

\* handleProfilePictureUpload with e.target.files[0] = file: the tests on the
\* file, the removal of the old picture, the upload, the update of the row
handleProfilePictureUpload(file, removeOutcome, uploadOutcome, updateOutcome) ==
    /\ settingsReady
    /\ IF file = Null
       THEN UNCHANGED <<users, clock, blobs, panelToast, settingsProfile, pc>>
       ELSE IF fileError(file) # "none"
       THEN /\ panelToast' = fileError(file)
            /\ UNCHANGED <<users, clock, blobs, settingsProfile, pc>>
       ELSE /\ clock < MaxClock
            /\ clock' = clock + 1
            /\ LET path == fileName(settingsProfile.id, clock + 1, file.ext)
                   removed == IF settingsProfile.profile_picture # Null
                              THEN remove(oldPath(settingsProfile.profile_picture),
                                          removeOutcome)
                              ELSE blobs
               IN IF uploadOutcome # "ok"
                  THEN /\ blobs' = removed
                       /\ panelToast' = "upload error"
                       /\ UNCHANGED <<users, settingsProfile, pc>>
                  ELSE /\ blobs' = removed \cup {path}
                       /\ IF updateOutcome # "ok"
                          THEN /\ panelToast' = "update error"
                               /\ UNCHANGED <<users, settingsProfile, pc>>
                          ELSE /\ users' = setPicture(settingsProfile.id, publicUrl(path))
                               /\ settingsProfile' =
                                     [settingsProfile EXCEPT !.profile_picture = publicUrl(path)]
                               /\ panelToast' = "Profile picture updated! Changes will appear across the site."
                               \* window.location.reload(): the page mounts again
                               /\ pc' = [pc EXCEPT ![Viewer] = "checkAuth"]
    /\ UNCHANGED <<accounts, super_admins, admins, session, page, toast, login,
                   signupData, dash, posts, nextPostId, panelProfile, archiveProfile,
                   archiveType, archivePosts, dashboardPosts, selectedDepartment>>

\* handleRemoveProfilePicture, confirmed in the dialog: the removal of the
\* file, then the update of the row
handleRemoveProfilePicture(removeOutcome, updateOutcome) ==
    /\ settingsReady
    /\ settingsProfile.profile_picture # Null
    /\ blobs' = remove(oldPath(settingsProfile.profile_picture), removeOutcome)
    /\ IF updateOutcome = "ok"
       THEN /\ users' = setPicture(settingsProfile.id, Null)
            /\ settingsProfile' = [settingsProfile EXCEPT !.profile_picture = Null]
            /\ panelToast' = "Profile picture removed!"
       ELSE /\ panelToast' = "update error"
            /\ UNCHANGED <<users, settingsProfile>>
    /\ UNCHANGED <<accounts, super_admins, admins, clock, session, page, pc, toast,
                   login, signupData, dash, posts, nextPostId, panelProfile,
                   archiveProfile, archiveType, archivePosts, dashboardPosts,
                   selectedDepartment>>

\* handleUpdateProfile with formData.name = name: update users set name
handleUpdateProfile(name, outcome) ==
    /\ settingsReady
    /\ IF name = ""
       THEN /\ panelToast' = "Name is required"
            /\ UNCHANGED <<users, settingsProfile>>
       ELSE IF outcome = "ok"
       THEN /\ users' = [i \in Ids |->
                           IF i = settingsProfile.id /\ users[i] # Null
                           THEN [users[i] EXCEPT !.name = name]
                           ELSE users[i]]
            /\ settingsProfile' = [settingsProfile EXCEPT !.name = name]
            /\ panelToast' = "Profile updated successfully!"
       ELSE /\ panelToast' = "update error"
            /\ UNCHANGED <<users, settingsProfile>>
    /\ UNCHANGED <<accounts, super_admins, admins, clock, session, page, pc, toast,
                   login, signupData, dash, posts, nextPostId, panelProfile,
                   archiveProfile, archiveType, archivePosts, dashboardPosts,
                   selectedDepartment, blobs>>

\* the operations of the rendered settings
SettingsButtons(answers) ==
    \/ \E file \in Files \cup {Null}, removeOutcome, uploadOutcome, updateOutcome \in answers :
          handleProfilePictureUpload(file, removeOutcome, uploadOutcome, updateOutcome)
    \/ \E removeOutcome, updateOutcome \in answers :
          handleRemoveProfilePicture(removeOutcome, updateOutcome)
    \/ \E name \in {"", "Bea"}, outcome \in answers : handleUpdateProfile(name, outcome)

\* ------------------------------------------------------------------- App
\* the routes of App.jsx a visitor can open by address: the page mounts and
\* runs its mount effect
Visit(c, route) ==
    /\ pc[c] = "idle"
    /\ page[c] # route
    /\ toast' = [toast EXCEPT ![c] = "none"]
    /\ login' = [login EXCEPT ![c] = NoLogin]
    /\ Unmounted(c)
    /\ CASE route = "/" ->
              /\ page' = [page EXCEPT ![c] = "/"]
              /\ UNCHANGED pc
         [] route = "/dashboard" ->
              /\ page' = [page EXCEPT ![c] = IF session[c] # Null THEN "/dashboard" ELSE "/"]
              /\ UNCHANGED pc
         [] route = "/super-admin-dashboard" ->
              /\ page' = [page EXCEPT ![c] = "/super-admin-dashboard"]
              /\ pc' = [pc EXCEPT ![c] = "checkSuperAdmin"]
         [] route \in {"/admin", "/archive", "/profile"} ->
              /\ c = Viewer
              /\ page' = [page EXCEPT ![c] = route]
              /\ pc' = [pc EXCEPT ![c] = "checkAuth"]
    /\ UNCHANGED <<store, session, signupData>>
    /\ Closed(c)
    /\ UNCHANGED <<postVars, blobs>>

Routes == {"/", "/dashboard", "/super-admin-dashboard"}
ContentRoutes == {"/admin", "/archive", "/profile"}

\* ------------------------------------------------------- specifications
\* What a browser does outside the approval buttons; "answers" is what the
\* backend may answer to a call.
Pages(c, answers) ==
    \/ checkUser(c)
    \/ handleLogin(c, answers)
    \/ handleSignup(c, answers, SignupForms)
    \/ \E outcome \in answers : DashboardLogout(c, outcome)
    \/ \E outcome \in answers : checkSuperAdmin(c, outcome)
    \/ \E outcome \in answers : SuperAdminLogout(c, outcome)
    \/ fetchUsers(c, answers)
    \/ \E route \in Routes : Visit(c, route)

\* The buttons of the dashboard call the handlers with the ids of the rows in
\* its two lists.
Buttons(c, answers) ==
    \/ \E id \in pendingUsers[c], outcome \in answers : handleApprove(c, id, outcome)
    \/ \E id \in pendingUsers[c], outcome \in answers : handleReject(c, id, outcome)
    \/ \E id \in approvedUsers[c], outcome \in answers : handleRevokeApproval(c, id, outcome)

\* The three operations called with any profile id.
Calls(c, answers) ==
    \/ \E id \in Ids, outcome \in answers : handleApprove(c, id, outcome)
    \/ \E id \in Ids, outcome \in answers : handleReject(c, id, outcome)
    \/ \E id \in Ids, outcome \in answers : handleRevokeApproval(c, id, outcome)

\* One browser uses the application and the backend answers every call.
Next == Pages("b1", {"ok"}) \/ Buttons("b1", {"ok"})

Spec == Init /\ [][Next]_vars

\* One browser uses the application and any call may be answered with an error.
NextErrors == Pages("b1", Outcomes) \/ Buttons("b1", Outcomes)

SpecErrors == Init /\ [][NextErrors]_vars

\* Several browsers register at the same time.
NextSignups == \E c \in Clients : handleSignup(c, Outcomes, SignupForms)

SpecSignups == Init /\ [][NextSignups]_vars

\* One browser uses the application; approve, reject and revoke are called
\* with any profile id.
NextCalls == Pages("b1", {"ok"}) \/ Calls("b1", {"ok"})

SpecCalls == Init /\ [][NextCalls]_vars

\* One browser registers visitors, with anything typed into the form.
NextForms == handleSignup("b1", {"ok"}, AllForms)

SpecForms == Init /\ [][NextForms]_vars

\* the admin panel mounted for a member of CCS with role 'admin'
InitPanel ==
    /\ InstalledStore
    /\ users[studentOf("CCS")].role = "admin"
    /\ users[studentOf("CED")].role = "user"
    /\ session = [c \in Clients |-> IF c = Viewer THEN studentOf("CCS") ELSE Null]
    /\ page = [c \in Clients |-> IF c = Viewer THEN "/admin" ELSE "/"]
    /\ pc = [c \in Clients |-> "idle"]
    /\ toast = [c \in Clients |-> "none"]
    /\ login = [c \in Clients |-> NoLogin]
    /\ signupData = [c \in Clients |-> NoSignup]
    /\ superAdmin = [c \in Clients |-> Null]
    /\ pendingUsers = [c \in Clients |-> {}]
    /\ approvedUsers = [c \in Clients |-> {}]
    /\ fetchPc = [c \in Clients |-> "idle"]
    /\ fetchTmp = [c \in Clients |-> {}]
    /\ posts = [i \in 1..MaxPosts |-> Null]
    /\ nextPostId = 1
    /\ panelToast = "none"
    /\ panelProfile = users[studentOf("CCS")]
    /\ archiveProfile = Null
    /\ archiveType = "none"
    /\ archivePosts = {}
    /\ dashboardPosts = {}
    /\ selectedDepartment = "all"
    /\ settingsProfile = Null
    /\ blobs = {}

\* An admin works in the admin panel and the archive.
NextPosts ==
    \/ \E form \in PostForms, outcome \in Outcomes : handleCreatePost(form, outcome)
    \/ \E id \in 1..MaxPosts, form \in PostForms, outcome \in Outcomes :
          handleEditPost(id, form, outcome)
    \/ \E id \in 1..MaxPosts, outcome \in Outcomes : handleDeletePost(id, outcome)
    \/ \E id \in 1..MaxPosts, outcome \in Outcomes : handleArchivePost(id, outcome)
    \/ \E id \in 1..MaxPosts, outcome \in Outcomes : handleRestorePost(id, outcome)

SpecPosts == InitPanel /\ [][NextPosts]_vars

\* the forms of the posts written in SpecContent: an announcement, and an
\* event with a date
ContentForms ==
    {form \in PostForms :
        /\ form.title = "Title" /\ form.content = "Content"
        /\ \/ form.type = "announcement" /\ form.event_date = ""
           \/ form.type = "event" /\ form.event_date = "2025-06-01T09:00"}

\* The viewer signs in as any account of the installation and uses the
\* dashboard, the admin panel and the archive; the backend answers every call.
NextContent ==
    \/ checkUser(Viewer)
    \/ handleLogin(Viewer, {"ok"})
    \/ DashboardLogout(Viewer, "ok")
    \/ checkSuperAdmin(Viewer, "ok")
    \/ fetchUsers(Viewer, {"ok"})
    \/ \E route \in {"/", "/dashboard", "/admin", "/archive"} : Visit(Viewer, route)
    \/ AdminPanelCheckAuth("ok")
    \/ PanelButtons(ContentForms, {"ok"})
    \/ ArchiveCheckAuth("ok", "ok", "ok")
    \/ ArchiveFetchPosts("ok")
    \/ DashboardFetchPosts("ok")
    \/ \E dept \in Departments \cup {"all"} : handleDepartmentSelect(dept)

SpecContent == InitInstalled /\ [][NextContent]_vars

\* the installed store in which the users rows have the role sign-up writes
InitSettings ==
    /\ InitInstalled
    /\ \A d \in Departments : users[studentOf(d)].role = "user"

\* The viewer signs in and uses the profile settings; any call of the
\* settings may be answered with an error.
NextProfile ==
    \/ checkUser(Viewer)
    \/ handleLogin(Viewer, {"ok"})
    \/ DashboardLogout(Viewer, "ok")
    \/ \E route \in {"/", "/profile"} : Visit(Viewer, route)
    \/ \E outcome \in Outcomes : ProfileSettingsCheckAuth(outcome)
    \/ SettingsButtons(Outcomes)

SpecProfile == InitSettings /\ [][NextProfile]_vars

\* The viewer signs in as any account of the installation; a member writes
\* announcements in the admin panel and changes the name in the profile
\* settings; the backend answers every call.
NextAuthors ==
    \/ checkUser(Viewer)
    \/ handleLogin(Viewer, {"ok"})
    \/ DashboardLogout(Viewer, "ok")
    \/ checkSuperAdmin(Viewer, "ok")
    \/ fetchUsers(Viewer, {"ok"})
    \/ \E route \in {"/", "/admin", "/profile"} : Visit(Viewer, route)
    \/ AdminPanelCheckAuth("ok")
    \/ PanelButtons({form \in ContentForms : form.type = "announcement"}, {"ok"})
    \/ ProfileSettingsCheckAuth("ok")
    \/ \E name \in {"", "Bea"} : handleUpdateProfile(name, "ok")

SpecAuthors == InitInstalled /\ [][NextAuthors]_vars

\* The program head works in one browser while a member is signed in, or
\* signs in, in another.
Member(c) ==
    \/ checkUser(c)
    \/ handleLogin(c, {"ok"})
    \/ DashboardLogout(c, "ok")
    \/ \E route \in {"/", "/dashboard"} : Visit(c, route)

NextSessions == Pages("b1", {"ok"}) \/ Buttons("b1", {"ok"}) \/ Member("b2")

SpecSessions == Init /\ [][NextSessions]_vars

\* ================================================================ claims
IsRow(r) == r # Null /\ r # Unread

\* handleLogin has signed in and has not finished its lookups
Resolving(c) == pc[c] \in {"login_super_admins", "login_admins", "login_users"}

PendingToast == "Your account is pending approval from your Program Head"
NotFoundToast == "Account not found. Please sign up first."

\* the id has an admins or users row with is_approved = false
Unapproved(id) ==
    \/ admins[id] # Null /\ ~admins[id].is_approved
    \/ users[id] # Null /\ ~users[id].is_approved

\* C1: every login of an id that has no super_admins row and has an admins or
\* users row with is_approved = false goes through signOut and ends on the
\* landing page without a session, with the pending-approval message, and the
\* row it read is still the row of the table.
C1_PendingLoginRefused ==
    \A c \in Clients :
        LET l == login[c] IN
        (l.id # Null /\ ~Resolving(c) /\ super_admins[l.id] = Null /\ Unapproved(l.id))
        => /\ page[c] = "/"
           /\ pc[c] \in {"login_signout_pending", "idle"}
           /\ IsRow(l.adminProfile) \/ IsRow(l.userProfile)
           /\ IsRow(l.adminProfile) => admins[l.id] = l.adminProfile
           /\ IsRow(l.userProfile) => users[l.id] = l.userProfile
           /\ pc[c] = "idle" => /\ l.signOut = "ok"
                                /\ session[c] = Null
                                /\ toast[c] = PendingToast

\* an unapproved admin has logged in and been refused
C1_Witness ==
    \E c \in Clients :
        /\ pc[c] = "idle"
        /\ toast[c] = PendingToast
        /\ IsRow(login[c].adminProfile)
        /\ ~admins[login[c].id].is_approved
        /\ session[c] = Null

\* C2: handleLogin consults super_admins, then admins, then users, each only
\* when the one before answered no row, and nothing after the first row it
\* finds; an id found in super_admins keeps its session and is sent to
\* /super-admin-dashboard whatever the other two collections hold.
C2_Order ==
    \A c \in Clients :
        LET l == login[c] IN
        /\ l.superAdmin # Unread => l.id # Null
        /\ l.adminProfile # Unread => l.superAdmin = Null
        /\ l.userProfile # Unread => l.adminProfile = Null
        /\ IsRow(l.superAdmin) =>
              /\ l.adminProfile = Unread /\ l.userProfile = Unread
              /\ l.signOut = "none"
              /\ session[c] = l.id
              /\ pc[c] = "navigate_super_admin_dashboard"
              /\ toast[c] = "Welcome, Program Head!"
        /\ pc[c] = "navigate_super_admin_dashboard" => IsRow(l.superAdmin)

C2_Route ==
    \A c \in Clients :
        (pc[c] = "navigate_super_admin_dashboard" /\ pc'[c] # pc[c])
        => page'[c] = "/super-admin-dashboard" /\ session'[c] = session[c]

C2_SuperAdminFirst == []C2_Order /\ [][C2_Route]_vars

\* a program head has been found in super_admins and is about to be routed
C2_Witness ==
    \E c \in Clients :
        /\ pc[c] = "navigate_super_admin_dashboard"
        /\ super_admins[login[c].id] # Null
        /\ login[c].adminProfile = Unread

\* C3: every login of an id that has a row in none of the three collections
\* goes through signOut and ends on the landing page without a session, with
\* the account-not-found message.
C3_NotFoundRefused ==
    \A c \in Clients :
        LET l == login[c] IN
        (l.id # Null /\ ~Resolving(c)
            /\ super_admins[l.id] = Null /\ admins[l.id] = Null /\ users[l.id] = Null)
        => /\ page[c] = "/"
           /\ pc[c] \in {"login_signout_not_found", "idle"}
           /\ pc[c] = "idle" => /\ l.signOut = "ok"
                                /\ session[c] = Null
                                /\ toast[c] = NotFoundToast

\* an account whose profile is gone has logged in and been refused
C3_Witness ==
    \E c \in Clients :
        /\ pc[c] = "idle"
        /\ toast[c] = NotFoundToast
        /\ login[c].id \in accounts
        /\ login[c].userProfile = Null
        /\ session[c] = Null

\* C4: when handleLogin has ended without admitting the principal, the
\* browser holds no session.
C4_NoSessionAfterRefusal ==
    \A c \in Clients :
        (pc[c] = "idle" /\ login[c].id # Null) => session[c] = Null

\* C5: a PENDING AdminProfile of the department of a program head can be
\* approved by that program head: once the dashboard of the program head has
\* loaded its lists, every PENDING AdminProfile of the department is in the
\* pending list, where the approve button acts on it.
C5_PendingAdminsListed ==
    \A c \in Clients :
        dashboardReady(c) =>
            \A i \in Ids :
                (admins[i] # Null /\ ~admins[i].is_approved
                    /\ admins[i].department = superAdmin[c].department)
                => i \in pendingUsers[c]

\* C6: at most one AdminProfile and at most one SuperAdminProfile exist per
\* department.
C6_OnePerDepartment ==
    \A d \in Departments :
        /\ Cardinality(eqDepartment(admins, d)) <= 1
        /\ Cardinality(eqDepartment(super_admins, d)) <= 1

\* the collection the role of the submitted form is registered in
roleTable(c) == IF signupData[c].role = "super_admin" THEN super_admins ELSE admins

\* C7: registrations one after the other: auth.signUp is called, and a row
\* inserted, for role admin or super_admin only while the department has no
\* profile of that role; otherwise the sign-up ends with the duplicate message
\* and creates no account and no row.  The sign-up that finds no profile
\* inserts a row with is_approved = false for the account it created.
C7_Guard ==
    \A c \in Clients :
        (pc[c] \in {"signup_signUp", "signup_insert"}
            /\ signupData[c].role \in {"admin", "super_admin"})
        => eqDepartment(roleTable(c), signupData[c].department) = {}

C7_Steps ==
    \A c \in Clients :
        LET f == signupData[c]
            id == userId(f.email)
        IN /\ (pc[c] = "signup_existing" /\ pc'[c] # pc[c]
                 /\ eqDepartment(roleTable(c), f.department) # {})
              => /\ pc'[c] = "idle"
                 /\ toast'[c] = IF f.role = "admin"
                                THEN "An Admin for department already exists"
                                ELSE "A Program Head for department already exists"
                 /\ UNCHANGED store
           /\ (pc[c] = "signup_insert" /\ pc'[c] # pc[c] /\ f.role = "admin")
              => /\ id \in accounts
                 /\ admins[id] = Null
                 /\ admins' = [admins EXCEPT ![id] = ProfileRow(id, f.name, f.email, f.department)]
                 /\ admins'[id].is_approved = FALSE
                 /\ admins'[id].department = f.department
                 /\ toast'[c] = "Admin account created successfully!"
                 /\ UNCHANGED <<accounts, super_admins, users>>

C7_DuplicateRejected == []C7_Guard /\ [][C7_Steps]_vars

\* a second admin sign-up for a department has been refused as a duplicate
C7_Witness ==
    \E c \in Clients :
        /\ toast[c] = "An Admin for department already exists"
        /\ \E i \in Ids : admins[i] # Null /\ ~admins[i].is_approved
        /\ Cardinality(accounts) = 1

\* the profile of the id belongs to another department than the dashboard's
otherDepartment(c, id) ==
    \E table \in {super_admins, admins, users} :
        table[id] # Null /\ table[id].department # superAdmin[c].department

\* C8: approve, reject and revoke called by the program head of a department
\* on a profile of another department report a scope error and leave every
\* profile row as it is.
C8_Scope ==
    \A c \in Clients, id \in Ids :
        (dashboardReady(c) /\ otherDepartment(c, id)
            /\ \/ handleApprove(c, id, "ok")
               \/ handleReject(c, id, "ok")
               \/ handleRevokeApproval(c, id, "ok"))
        => UNCHANGED tables /\ toast'[c] = "ScopeError"

C9_Approve ==
    \A c \in Clients, id \in Ids :
        (handleApprove(c, id, "ok") /\ users[id] # Null /\ ~users[id].is_approved)
        => /\ users'[id].is_approved = TRUE
           /\ users'[id].approved_by = superAdmin[c].id
           /\ super_admins[superAdmin[c].id] # Null
           /\ users'[id].approved_at # NullTime
           /\ users'[id].approved_at > clock
           /\ DOMAIN users'[id] = DOMAIN users[id]
           /\ \A field \in DOMAIN users[id] \ {"is_approved", "approved_by", "approved_at"} :
                 users'[id][field] = users[id][field]
           /\ \A other \in Ids \ {id} : users'[other] = users[other]
           /\ UNCHANGED <<accounts, super_admins, admins>>

C9_ApproveEffect == [][C9_Approve]_vars

\* a student has been approved while other profiles exist
C9_Witness ==
    \E c \in Clients, id \in Ids :
        /\ toast[c] = "userName has been approved!"
        /\ users[id] # Null /\ users[id].is_approved
        /\ users[id].approved_by = superAdmin[c].id
        /\ users[id].approved_at = clock
        /\ \E other \in Ids \ {id, superAdmin[c].id} : other \in accounts

\* C10: approve followed by revoke gives back the profile as it was before
\* the approval: every PENDING row, revoked or new, has is_approved = false and
\* null approved_by and approved_at, revoke changes nothing else, revoking
\* an approval of the row gives the row, and a login that reads the row is
\* refused as pending.
C10_Pending ==
    /\ \A id \in Ids :
          (users[id] # Null /\ ~users[id].is_approved)
          => /\ users[id].approved_by = Null
             /\ users[id].approved_at = NullTime
             /\ \A by \in Ids, at \in 1..MaxClock :
                   revokeUpdate(approveUpdate(users[id], by, at)) = users[id]
    /\ \A c \in Clients :
          (IsRow(login[c].userProfile) /\ ~login[c].userProfile.is_approved)
          => /\ pc[c] \in {"login_signout_pending", "idle"}
             /\ page[c] = "/"
             /\ pc[c] = "idle" => toast[c] = PendingToast

C10_Revoke ==
    \A c \in Clients, id \in Ids :
        (handleRevokeApproval(c, id, "ok") /\ users[id] # Null /\ users[id].is_approved)
        => /\ users'[id].is_approved = FALSE
           /\ users'[id].approved_by = Null
           /\ users'[id].approved_at = NullTime
           /\ DOMAIN users'[id] = DOMAIN users[id]
           /\ \A field \in DOMAIN users[id] \ {"is_approved", "approved_by", "approved_at"} :
                 users'[id][field] = users[id][field]
           /\ \A other \in Ids \ {id} : users'[other] = users[other]
           /\ UNCHANGED <<accounts, super_admins, admins>>

C10_RoundTrip == []C10_Pending /\ [][C10_Revoke]_vars

\* an approved student has been revoked and is PENDING again
C10_Witness ==
    \E c \in Clients, id \in Ids :
        /\ toast[c] = "Approval revoked for userName"
        /\ clock > 0
        /\ users[id] # Null /\ ~users[id].is_approved
        /\ users[id].department = superAdmin[c].department
        /\ users[id] = UserRow(id, users[id].name, users[id].email, users[id].department)

\* the id has a row in one of the three collections
hasProfile(id) == super_admins[id] # Null \/ admins[id] # Null \/ users[id] # Null

\* the id has an account, no profile, and no sign-up is about to insert one
profileGone(id) ==
    /\ id \in accounts
    /\ ~hasProfile(id)
    /\ \A c \in Clients : pc[c] = "signup_insert" => userId(signupData[c].email) # id

\* C11: a successful reject of a profile removes its row and removes its
\* account, so that its owner can no longer sign in; and an id whose profile
\* is gone never has a profile again.
C11_Reject ==
    /\ \A c \in Clients, id \in Ids :
          (handleReject(c, id, "ok") /\ users[id] # Null)
          => users'[id] = Null /\ id \notin accounts'
    /\ \A id \in Ids : profileGone(id) => ~hasProfile(id)'

C11_RejectRemovesAccount == [][C11_Reject]_vars

\* C12: a reject of an id whose row is already deleted changes neither the
\* accounts nor the collections and reports something else than the success
\* of a reject.
C12_Repeat ==
    \A c \in Clients, id \in Ids :
        (handleReject(c, id, "ok") /\ users[id] = Null)
        => /\ UNCHANGED <<accounts, tables>>
           /\ toast'[c] # "userName has been rejected and removed"

C12_RejectAgainNotFound == [][C12_Repeat]_vars

\* the approval fields of a row
approval(row) == <<row.is_approved, row.approved_by, row.approved_at>>

\* C13: in every step of the application the fields is_approved, approved_by
\* and approved_at of a profile change only by an approve or a revoke that the
\* program head of the profile's department performs, and a profile row
\* disappears only by the reject of a program head.
C13_Frame ==
    \A id \in Ids :
        /\ (users[id] # Null /\ users'[id] # Null
               /\ approval(users'[id]) # approval(users[id]))
           => \E c \in Clients :
                 /\ dashboardReady(c)
                 /\ superAdmin[c].department = users[id].department
                 /\ handleApprove(c, id, "ok") \/ handleRevokeApproval(c, id, "ok")
        /\ (admins[id] # Null /\ admins'[id] # Null
               /\ approval(admins'[id]) # approval(admins[id]))
           => \E c \in Clients :
                 /\ dashboardReady(c)
                 /\ superAdmin[c].department = admins[id].department
                 /\ handleApprove(c, id, "ok") \/ handleRevokeApproval(c, id, "ok")
        /\ (hasProfile(id) /\ ~hasProfile(id)')
           => \E c \in Clients : dashboardReady(c) /\ handleReject(c, id, "ok")

C14_RevokedNotServed ==
    \A c \in Clients :
        LET p == session[c] IN
        (p # Null /\ users[p] # Null /\ ~users[p].is_approved)
        => /\ page[c] # "/dashboard"
           /\ pc[c] \in {"login_super_admins", "login_admins", "login_users",
                         "login_signout_pending", "login_signout_not_found"}

\* the collections that hold a row for the id
tiersOf(id) ==
    {t \in Roles : \/ t = "super_admin" /\ super_admins[id] # Null
                   \/ t = "admin" /\ admins[id] # Null
                   \/ t = "user" /\ users[id] # Null}

\* C15: no id has a row in more than one of the collections users, admins and
\* super_admins, and every row is stored under its own id.
C15_TiersDisjoint ==
    \A id \in Ids :
        /\ Cardinality(tiersOf(id)) <= 1
        /\ super_admins[id] # Null => super_admins[id].id = id
        /\ admins[id] # Null => admins[id].id = id
        /\ users[id] # Null => users[id].id = id

\* an admin address is registered under role user, and a later sign-up with
\* the same address has been refused by the auth provider
C15_Witness ==
    \E id \in Ids :
        /\ id.kind = "admin"
        /\ tiersOf(id) = {"user"}
        /\ toast["b1"] = "AuthError"
        /\ \E other \in Ids \ {id} : tiersOf(other) = {"admin"}

\* C17: a sign-up reaches its insert only with the account created and no
\* profile yet for it; the answered signUp creates the account and no row; the
\* answered insert puts one row, under the account's id, into the collection
\* of the requested role and none into the other two, with is_approved = false
\* for user and admin and without approval fields for super_admin.
C17_AccountFirst ==
    \A c \in Clients :
        pc[c] = "signup_insert"
        => /\ userId(signupData[c].email) \in accounts
           /\ ~hasProfile(userId(signupData[c].email))

C17_Steps ==
    \A c \in Clients :
        LET f == signupData[c]
            id == userId(f.email)
        IN /\ (handleSignupSignUp(c, "ok") /\ id \notin accounts)
              => /\ accounts' = accounts \cup {id}
                 /\ pc'[c] = "signup_insert"
                 /\ UNCHANGED tables
           /\ (handleSignupInsert(c, "ok") /\ f.role = "user")
              => /\ users'[id] = [id |-> id, name |-> f.name, email |-> f.email,
                                  role |-> "user", department |-> f.department,
                                  is_approved |-> FALSE, approved_by |-> Null,
                                  approved_at |-> NullTime, profile_picture |-> Null]
                 /\ \A other \in Ids \ {id} : users'[other] = users[other]
                 /\ UNCHANGED <<accounts, admins, super_admins>>
           /\ (handleSignupInsert(c, "ok") /\ f.role = "admin")
              => /\ admins'[id] = [id |-> id, name |-> f.name, email |-> f.email,
                                   department |-> f.department,
                                   is_approved |-> FALSE, approved_by |-> Null,
                                   approved_at |-> NullTime]
                 /\ \A other \in Ids \ {id} : admins'[other] = admins[other]
                 /\ UNCHANGED <<accounts, users, super_admins>>
           /\ (handleSignupInsert(c, "ok") /\ f.role = "super_admin")
              => /\ super_admins'[id] = [id |-> id, name |-> f.name, email |-> f.email,
                                         department |-> f.department]
                 /\ "is_approved" \notin DOMAIN super_admins'[id]
                 /\ \A other \in Ids \ {id} : super_admins'[other] = super_admins[other]
                 /\ UNCHANGED <<accounts, users, admins>>

C17_OneRowPerSignup == []C17_AccountFirst /\ [][C17_Steps]_vars

\* a student, an admin and a program head have registered
C17_Witness ==
    /\ pc["b1"] = "idle"
    /\ toast["b1"] \in {"Account created successfully!", "Admin account created successfully!",
                        "Program Head account created! Please verify your email."}
    /\ \E u, a, h \in accounts :
          tiersOf(u) = {"user"} /\ tiersOf(a) = {"admin"} /\ tiersOf(h) = {"super_admin"}

conventionToasts == {"Admin email must be expectedEmail",
                     "Program Head email must be expectedEmail"}

\* C18: a form of role admin or super_admin whose fields are filled in
\* goes on to the uniqueness lookup exactly when its address, in lower case,
\* is <department>-admin@spc.edu or <department>-head@spc.edu for the
\* department chosen; with any other address the sign-up ends with the
\* e-mail convention message and no lookup, account or row.
C18_Submit ==
    \A c \in Clients :
        (pc[c] = "idle" /\ page[c] = "/" /\ (pc'[c] # pc[c] \/ toast'[c] # toast[c]))
        => \A role \in {"admin", "super_admin"}, department \in Departments, email \in Emails :
              handleSignupSubmit(c, [name |-> "Ana", email |-> email, password |-> "123456",
                                     confirmPassword |-> "123456", role |-> role,
                                     department |-> department])
              => IF /\ email.kind = (IF role = "admin" THEN "admin" ELSE "head")
                    /\ email.dept = department
                 THEN /\ pc'[c] = "signup_existing"
                      /\ signupData'[c] = [name |-> "Ana", role |-> role,
                                           department |-> department, email |-> email]
                      /\ UNCHANGED store
                 ELSE /\ pc'[c] = "idle"
                      /\ toast'[c] \in conventionToasts
                      /\ UNCHANGED <<store, signupData>>

C18_InFlight ==
    \A c \in Clients :
        LET f == signupData[c] IN
        (pc[c] # "idle" /\ f.role \in {"admin", "super_admin"})
        => /\ f.email.kind = (IF f.role = "admin" THEN "admin" ELSE "head")
           /\ f.email.dept = f.department

C18_EmailConvention == []C18_InFlight /\ [][C18_Submit]_vars

\* an admin form with the address of another department has been refused
C18_Witness ==
    /\ pc["b1"] = "idle"
    /\ toast["b1"] = "Admin email must be expectedEmail"
    /\ accounts # {}

validationToasts == {"All fields are required", "Passwords do not match",
                     "Password must be at least 6 characters"}

\* C19: a form with an empty name, address, password or confirmation, with a
\* password of fewer than 6 characters or with two different passwords ends
\* the sign-up with a validation message: no lookup, no signUp, no insert, and
\* the accounts and the three collections stay as they are.
C19_Rejected(c) ==
    /\ pc'[c] = "idle"
    /\ toast'[c] \in validationToasts
    /\ UNCHANGED <<store, signupData>>

\* (a step that is not such a refusal submits no such form)
C19_Submit ==
    \A c \in Clients :
        (/\ pc[c] = "idle" /\ page[c] = "/"
         /\ pc'[c] # pc[c] \/ toast'[c] # toast[c]
         /\ ~C19_Rejected(c))
        => \A name \in Names, password \in Passwords, confirmPassword \in Passwords,
              email \in Emails \cup {Null} :
              (\/ name = "" \/ email = Null \/ password = "" \/ confirmPassword = ""
               \/ Len(password) < 6 \/ password # confirmPassword)
              => \A role \in Roles, department \in Departments :
                    ~handleSignupSubmit(c, [name |-> name, email |-> email,
                                            password |-> password,
                                            confirmPassword |-> confirmPassword,
                                            role |-> role, department |-> department])

C19_ValidationError == [][C19_Submit]_vars

\* a form with a password of five characters has been refused
C19_Witness ==
    /\ pc["b1"] = "idle"
    /\ toast["b1"] = "Password must be at least 6 characters"
    /\ accounts # {}

\* the tier the collections give an id, and whether they admit it
tierOf(id) ==
    IF super_admins[id] # Null THEN "super_admin"
    ELSE IF admins[id] # Null THEN "admin"
    ELSE IF users[id] # Null THEN "user"
    ELSE "none"

admits(id) ==
    \/ tierOf(id) = "super_admin"
    \/ tierOf(id) = "admin" /\ admins[id].is_approved
    \/ tierOf(id) = "user" /\ users[id].is_approved

postErrors == {"Title and content are required", "Event date is required for events"}

\* C20: every stored post has an event date exactly when its type is event,
\* whatever posts were created and edited before, the type changed included;
\* and a create or an edit of type event with an empty date ends with a
\* validation message and leaves the posts as they are.
C20_Stored ==
    \A id \in 1..MaxPosts :
        posts[id] # Null
        => /\ (posts[id].event_date # NullDate) <=> (posts[id].type = "event")
           /\ posts[id].event_date \in EventDates \cup {NullDate}

C20_Refused ==
    \A form \in PostForms :
        (form.type = "event" /\ form.event_date = "")
        => /\ handleCreatePost(form, "ok") => (posts' = posts /\ panelToast' \in postErrors)
           /\ \A id \in 1..MaxPosts :
                 handleEditPost(id, form, "ok") => (posts' = posts /\ panelToast' \in postErrors)

C20_EventDate == []C20_Stored /\ [][C20_Refused]_vars

\* an event has been edited into an announcement, next to a post that is
\* still an event
C20_Witness ==
    /\ panelToast = "Post updated successfully!"
    /\ \E id, other \in 1..MaxPosts :
          /\ posts[id] # Null /\ posts[other] # Null
          /\ posts[id].type = "announcement" /\ posts[id].event_date = NullDate
          /\ posts[other].type = "event" /\ posts[other].event_date \in EventDates

\* C21: every archived post the archive shows to its author carries the
\* Restore button, so that the author of a post can archive it and afterwards
\* restore it; an archive changes only the status of the post, to 'archived',
\* and a restore only the status, to 'active', so that archive followed by
\* restore gives back the post; and a post that was deleted never exists again.
C21_AuthorRestores ==
    archiveReady =>
        \A post \in archivePosts :
            post.author_id = session[Viewer] => isOwnPost(post)

C21_Steps ==
    \A id \in 1..MaxPosts :
        /\ (handleArchivePost(id, "ok") /\ posts[id] # Null)
           => posts' = [posts EXCEPT ![id] = [posts[id] EXCEPT !.status = "archived"]]
        /\ (handleRestorePost(id, "ok") /\ posts[id] # Null)
           => posts' = [posts EXCEPT ![id] = [posts[id] EXCEPT !.status = "active"]]
        /\ (posts[id] # Null /\ posts[id].status = "active")
           => [[posts[id] EXCEPT !.status = "archived"] EXCEPT !.status = "active"] = posts[id]
        /\ (id < nextPostId /\ posts[id] = Null) => posts'[id] = Null
        /\ nextPostId' >= nextPostId

C21_ArchiveReversible == []C21_AuthorRestores /\ [][C21_Steps]_vars

\* the viewer is signed in as a member: the id has a users row with role
\* 'user' and no row in super_admins or admins
viewerIsUser ==
    /\ session[Viewer] # Null
    /\ tierOf(session[Viewer]) = "user"
    /\ users[session[Viewer]].role = "user"

\* C22: the posts the feed of the dashboard shows to a member are active
\* posts of the member's department, and the posts the archive shows to a
\* member are archived posts of the member's department.
C22_OwnDepartment ==
    /\ (mounted("/dashboard") /\ viewerIsUser)
       => \A post \in filteredPosts :
             /\ post.status = "active"
             /\ post.department = users[session[Viewer]].department
    /\ (archiveReady /\ archiveType = "user" /\ viewerIsUser)
       => \A post \in archivePosts :
             /\ post.status = "archived"
             /\ post.department = archiveProfile.department

fileErrors == {"Please upload an image file", "Image size must be less than 2MB"}

\* C23: handleProfilePictureUpload with a file whose mimetype is not an image
\* type or whose size is above 2 * 1024 * 1024 bytes ends with a message
\* about the file and neither removes nor uploads a file nor updates a
\* profile: the bucket and the collections stay as they are.
C23_Upload ==
    settingsReady =>
        \A file \in Files, removeOutcome, uploadOutcome, updateOutcome \in Outcomes :
            (/\ file.type # "image" \/ file.size > 2 * 1024 * 1024
             /\ handleProfilePictureUpload(file, removeOutcome, uploadOutcome, updateOutcome))
            => /\ UNCHANGED <<blobs, accounts, tables, clock, settingsProfile>>
               /\ panelToast' \in fileErrors

C23_FileRejected == [][C23_Upload]_vars

\* a member who has a picture in the bucket has chosen an image of more than
\* 2MB and has been refused
C23_Witness ==
    /\ settingsReady
    /\ panelToast = "Image size must be less than 2MB"
    /\ settingsProfile.profile_picture # Null
    /\ oldPath(settingsProfile.profile_picture) \in blobs
    /\ users[settingsProfile.id].profile_picture = settingsProfile.profile_picture

\* C24: the pages use the tier handleLogin assigns: AdminPanel's checkAuth
\* admits every signed-in id that handleLogin admits as tier admin (an
\* approved row in admins and none in super_admins), so that the id reaches
\* create-post, and Archive's checkAuth gives every signed-in id the
\* userType of the tier handleLogin resolves it to.
C24_Step ==
    LET id == session[Viewer] IN
    /\ (AdminPanelCheckAuth("ok") /\ id # Null /\ tierOf(id) = "admin" /\ admits(id))
       => /\ panelProfile' # Null
          /\ page'[Viewer] = "/admin"
          /\ pc'[Viewer] = "idle"
    /\ (ArchiveCheckAuth("ok", "ok", "ok") /\ id # Null /\ tierOf(id) # "none")
       => archiveType' = tierOf(id)

C24_TierAgreement == [][C24_Step]_vars

\* C25: the author_id of every stored post is the id of a row of the
\* collection admins.
C25_AuthorsAreAdmins ==
    \A i \in 1..MaxPosts :
        posts[i] # Null => admins[posts[i].author_id] # Null

\* C26: every account has exactly one profile row, or is the account of a
\* sign-up whose insert has not been answered yet: a sign-up leaves no account
\* without a profile behind, also when its insert fails.
C26_AccountHasProfile ==
    \A id \in accounts :
        \/ Cardinality(tiersOf(id)) = 1
        \/ \E c \in Clients :
              pc[c] = "signup_insert" /\ userId(signupData[c].email) = id

\* C27: whatever list the dashboard shows, a reject deletes only a row that is
\* PENDING when it is deleted, an approve changes only a row that is PENDING
\* and a revoke only a row that is APPROVED: a row with is_approved = true is
\* never deleted by a reject, and its approved_by and approved_at are never
\* written again by an approve.
C27_Source ==
    \A c \in Clients, id \in Ids :
        /\ (handleReject(c, id, "ok") /\ users[id] # Null) => ~users[id].is_approved
        /\ (handleApprove(c, id, "ok") /\ users[id] # Null) => ~users[id].is_approved
        /\ (handleRevokeApproval(c, id, "ok") /\ users[id] # Null /\ users'[id] # users[id])
           => users[id].is_approved

C27_StaleList == [][C27_Source]_vars

\* C28: an edit writes only title, content, type and event_date of the edited
\* post: its status, author_id and department stay as they were (an archived
\* post stays archived), every other post stays as it was, no post is created
\* or deleted, and when the form fails a test or the update answers with an
\* error the stored posts are unchanged. (A step that leaves posts and
\* nextPostId as they are satisfies all of this.)
C28_Edit ==
    \/ UNCHANGED <<posts, nextPostId>>
    \/ \A id \in 1..MaxPosts, form \in PostForms, outcome \in Outcomes :
          handleEditPost(id, form, outcome)
          => IF postError(form) # "none" \/ outcome # "ok" \/ posts[id] = Null
             THEN posts' = posts /\ nextPostId' = nextPostId
             ELSE /\ \A other \in 1..MaxPosts : other # id => posts'[other] = posts[other]
                  /\ posts'[id] # Null
                  /\ posts'[id].status = posts[id].status
                  /\ posts'[id].author_id = posts[id].author_id
                  /\ posts'[id].department = posts[id].department
                  /\ nextPostId' = nextPostId

C28_EditFrame == [][C28_Edit]_vars

\* an archived post has been edited and is still archived
C28_Witness ==
    /\ panelToast = "Post updated successfully!"
    /\ \E id \in 1..MaxPosts :
          /\ posts[id] # Null
          /\ posts[id].status = "archived"
          /\ posts[id].type = "event"

\* C29: the department of every post whose author has a users row is the
\* department of that row; a post comes into being with status 'active', the
\* id of the signed-in member as author_id and the department of that
\* member's row; and no step changes the department or the author_id of a
\* stored post or the department of a stored row of super_admins, admins or
\* users.
C29_Departments ==
    \A i \in 1..MaxPosts :
        (posts[i] # Null /\ users[posts[i].author_id] # Null)
        => posts[i].department = users[posts[i].author_id].department

C29_Step ==
    /\ \A i \in 1..MaxPosts :
          /\ (posts[i] = Null /\ posts'[i] # Null)
             => /\ posts'[i].status = "active"
                /\ posts'[i].author_id = session[Viewer]
                /\ users[session[Viewer]] # Null
                /\ posts'[i].department = users[session[Viewer]].department
          /\ (posts[i] # Null /\ posts'[i] # Null)
             => /\ posts'[i].department = posts[i].department
                /\ posts'[i].author_id = posts[i].author_id
    /\ \A id \in Ids :
          /\ (users[id] # Null /\ users'[id] # Null)
             => users'[id].department = users[id].department
          /\ (admins[id] # Null /\ admins'[id] # Null)
             => admins'[id].department = admins[id].department
          /\ (super_admins[id] # Null /\ super_admins'[id] # Null)
             => super_admins'[id].department = super_admins[id].department

C29_AuthorDepartment == []C29_Departments /\ [][C29_Step]_vars

\* members of two departments have written a post each, one of the authors
\* has changed the name since, and one of the posts is archived
C29_Witness ==
    \E i, j \in 1..MaxPosts :
        /\ posts[i] # Null /\ posts[j] # Null
        /\ posts[i].department = "CCS" /\ posts[j].department = "CED"
        /\ posts[i].author_id = studentOf("CCS") /\ posts[j].author_id = studentOf("CED")
        /\ posts[j].status = "archived"
        /\ users[studentOf("CCS")] # Null /\ users[studentOf("CCS")].name = "Bea"

\* C30: the profile_picture of every users row is null or the address of a
\* file that is in the bucket, also after an upload whose storage upload or
\* row update answered with an error and after a removal whose row update
\* answered with an error.
C30_PictureStored ==
    \A id \in Ids :
        (users[id] # Null /\ users[id].profile_picture # Null)
        => oldPath(users[id].profile_picture) \in blobs

====
